---- MODULE Spec2Model ----
(***************************************************************************)
(* Training job orchestration of the admin dashboard backend:              *)
(* trainingController.js (startTraining, checkTrainingStatus,              *)
(* cancelTraining) over the Training store, the Replicate provider and the *)
(* services/trainingWorkflow functions the controller calls.               *)
(*                                                                         *)
(* Every await of a handler is a suspension point, so every handler is a   *)
(* sequence of steps (one action per step) and the steps of concurrent     *)
(* requests interleave.  A Date value is modelled as the instant at which  *)
(* new Date() was evaluated: <<handler, request, source line>>.            *)
(***************************************************************************)
EXTENDS Integers, Sequences, FiniteSets, TLC

\* ---------------------------------------------------------------- bounds
MaxStartRequests == 1
MaxCancelRequests == 2
MaxCheckRequests == 2
MaxConfiguredAttempts == 2
MaxStreamConnections == 2
MaxPublished == 2
MaxClockMs == 50000
MaxJobs == 11
MaxVariedJobs == 1
MaxPageTrainings == 1
MaxChannel == 2
MaxRequests == 2
MaxOrphanTimers == 1
MaxParamChanges == 2
MaxBooks == 2
MaxBookChanges == 2
MaxBookRequests == 4

\* ------------------------------------------------------------- constants
MAX_TRAINING_IMAGES == 25

StartIds == 1..MaxStartRequests
CancelIds == 1..MaxCancelRequests
CheckIds == 1..MaxCheckRequests
StreamIds == 1..MaxStreamConnections

\* a training id that no Training.create ever returned
UnknownTrainingId == 0

NoDate == << >>
NoHandle == << >>
NoError == "null"

TerminalStatuses == {"succeeded", "failed", "canceled"}

\* ------------------------------------------------------------ user store
\* The User collection as startTraining reads it: user id -> imageAssets,
\* every asset named by what downloadAssetBuffer does with it.
UserStore ==
  [u \in {"u_noassets", "u_blank", "u_library", "u_broken"} |->
     CASE u = "u_noassets" -> << >>
       [] u = "u_blank"    -> <<"empty">>
       [] u = "u_library"  -> <<"empty", "ok">>
       [] u = "u_broken"   -> <<"throws">>]

\* the requests POST /api/trainings is sent: body.userId and req.files
StartInputs ==
  { [userId |-> "u_missing",  files |-> 0],
    [userId |-> "u_missing",  files |-> 1],
    [userId |-> "u_noassets", files |-> 0],
    [userId |-> "u_blank",    files |-> 0],
    [userId |-> "u_broken",   files |-> 0],
    [userId |-> "u_library",  files |-> 0],
    [userId |-> "u_noassets", files |-> 1] }

NoInput == [userId |-> "", files |-> 0]

VARIABLES
  maxAttempts,   \* the configured maximum of dispatch attempts
  trainings,     \* the Training collection: _id -> document
  provider,      \* Replicate: status of the remote training of each _id
  s3,            \* object store: the _ids whose dataset objects exist
  startReq,      \* POST /api/trainings requests
  cancelReq,     \* POST /api/trainings/:id/cancel requests
  checkReq,      \* GET  /api/trainings/:id/status requests
  ingested,      \* history: the provider statuses processTrainingEvent was
                 \* handed for each _id, applied or discarded
  streams,       \* GET /api/trainings/stream connections: state, frames
                 \* written to res, the heartbeat interval
  subscribers,   \* the broadcaster's subscriber set (one send per connection)
  published,     \* history: the payloads handed to the broadcaster, in order
  now,           \* the server's clock, in ms
  storybookJobs, \* Storybooks page: the cached list of generation jobs
  lastJobUpdate, \* history: the payload applyJobUpdate was last called with
  page,          \* Training page: its refs, timers and requests in flight
  serverStatus,  \* what GET /api/trainings would answer: _id -> status
  channel,       \* messages of the open event stream not yet delivered
  refetchOwed,   \* history: a delivered message reported a status the page
                 \* did not know and no list request was issued since
  book,          \* Storybooks page: the selected book, its job stream, its
                 \* requests in flight and the handled completions
  serverJobs     \* the status of each book's generation job on the server

backendVars == <<maxAttempts, trainings, provider, s3, startReq, cancelReq,
                 checkReq, ingested>>

streamVars == <<streams, subscribers, published, now>>

jobListVars == <<storybookJobs, lastJobUpdate>>

pageVars == <<page, serverStatus, channel, refetchOwed>>

bookVars == <<book, serverJobs>>

otherVars == <<streamVars, jobListVars, pageVars, bookVars>>

outsideStream == <<backendVars, jobListVars, pageVars, bookVars>>

outsideJobList == <<backendVars, streamVars, pageVars, serverJobs>>

outsidePage == <<backendVars, streamVars, jobListVars, bookVars>>

outsideBook == <<backendVars, streamVars, pageVars>>

vars == <<backendVars, otherVars>>

\* ------------------------------------------------- utils/replicateTraining
createPendingReplicateId(modelName) == <<"pending:", modelName>>

\* variant of isPendingReplicateId that compares instead of testing the prefix
isPendingExact(value) == value = <<"pending:">>

isPendingReplicateId(value) == Len(value) > 0 /\ value[1] = "pending:"

\* the handle replicate.trainings.create returns for the training of _id t
ProviderHandle(t) == <<"rt", t>>

Event(type, message, timestamp) ==
  [type |-> type, message |-> message, timestamp |-> timestamp]

\* what replicate.trainings.get answers: the remote status and, when the
\* provider has one, a raw progress figure
NoProgress == -1
RawProgress == {NoProgress, 250}
NoReply == [status |-> "", progress |-> NoProgress]

\* ------------------------------------------------------------------ Init
IdleStart ==
  [pc |-> "idle", input |-> NoInput, images |-> 0, created |-> FALSE,
   dispatched |-> "no", bcasts |-> 0, resp |-> 0]

IdleCancel ==
  [pc |-> "idle", id |-> UnknownTrainingId, seenStatus |-> "",
   handle |-> NoHandle, bcasts |-> 0, resp |-> 0, threw |-> ""]

IdleCheck ==
  [pc |-> "idle", id |-> UnknownTrainingId, seenStatus |-> "",
   handle |-> NoHandle, reply |-> NoReply, eventType |-> "", bcasts |-> 0,
   resp |-> 0]

BackendInit ==
  /\ maxAttempts \in 1..MaxConfiguredAttempts
  /\ trainings = << >>
  /\ provider = [t \in StartIds |-> "none"]
  /\ s3 = {}
  /\ startReq = [r \in StartIds |-> IdleStart]
  /\ cancelReq = [r \in CancelIds |-> IdleCancel]
  /\ checkReq = [r \in CheckIds |-> IdleCheck]
  /\ ingested = [t \in StartIds |-> {}]

\* a stream connection: state, the frames written to res (each with the
\* instant of the write), the next due instant of its heartbeat interval
\* (NoTimer when cleared or never set), and, as history, the instants it
\* opened and closed and how much had been published at those instants
NoTimer == -1

IdleStream ==
  [state |-> "idle", out |-> << >>, heartbeat |-> NoTimer,
   openedAt |-> 0, closedAt |-> 0, publishedAtOpen |-> 0,
   publishedAtClose |-> 0]

StreamIdle ==
  /\ streams = [c \in StreamIds |-> IdleStream]
  /\ subscribers = {}
  /\ published = << >>
  /\ now = 0

\* Storybooks.jsx line 2068
JobListIdle ==
  /\ storybookJobs = << >>
  /\ lastJobUpdate = [_id |-> 0, createdAt |-> 0, bookId |-> 0,
                      status |-> [kind |-> "absent", v |-> << >>],
                      error |-> [kind |-> "absent", v |-> << >>],
                      events |-> [kind |-> "absent", v |-> << >>],
                      pages |-> [kind |-> "absent", v |-> << >>]]

BookIds == 1..MaxBooks
NoBook == 0

\* Storybooks.jsx lines 2058-2076: the page with no book selected.
\* selectedBook is the id of the book whose details are shown; completions
\* counts, per job, the runs of the completion handling since the book was
\* selected; openSources and reconnectTimers count the EventSource objects
\* not yet closed and the reconnect timeouts still waiting
BookIdle ==
  /\ book = [unmounted |-> FALSE,
             selectedBookId |-> NoBook,
             changes |-> 0,
             selectedBook |-> NoBook,
             handled |-> {},
             completions |-> [j \in 1..MaxJobs |-> 0],
             requests |-> << >>,
             failed |-> FALSE,
             eventSource |-> "none",
             streamBook |-> NoBook,
             openSources |-> 0,
             reconnectTimer |-> FALSE,
             reconnectTimers |-> 0]
  /\ serverJobs = [j \in BookIds |-> "running"]

PageTrainingIds == 1..MaxPageTrainings

\* nothing has been displayed yet
NoDisplay == -1

\* part_000 lines 100-123: the page before it is mounted.  params counts
\* the changes of page, limit, search and filters; displayed is the params
\* of the response last put into trainings and trainingPagination;
\* openSources and reconnectTimers count the EventSource objects not yet
\* closed and the reconnect timeouts not yet fired or cleared, whatever the
\* refs point to; orphanTimers are the refresh timeouts still waiting that
\* trainingRefreshTimeoutRef no longer points to, each with the params of
\* its fetchTrainings
PageIdle ==
  /\ page = [mounted |-> FALSE,
             unmounted |-> FALSE,
             params |-> 0,
             displayed |-> NoDisplay,
             fetchFailed |-> FALSE,
             eventSource |-> "none",
             openSources |-> 0,
             hasProcessedInitialStream |-> FALSE,
             refreshTimer |-> FALSE,
             orphanTimers |-> << >>,
             reconnectTimer |-> FALSE,
             reconnectTimers |-> 0,
             statusMap |-> [t \in PageTrainingIds |-> ""],
             isFetching |-> FALSE,
             pending |-> "none",
             requests |-> << >>]
  /\ serverStatus = [t \in PageTrainingIds |-> ""]
  /\ channel = << >>
  /\ refetchOwed = FALSE

Init ==
  /\ BackendInit
  /\ StreamIdle
  /\ JobListIdle
  /\ PageIdle
  /\ BookIdle

\* ------------------------------------------------------ shared helpers
\* Training.findByIdAndUpdate(id, {$set, $push}): one atomic document
\* update; a missing document is left missing.
findByIdAndUpdate(docs, id, set, push) ==
  IF id \in DOMAIN docs
    THEN [docs EXCEPT ![id] =
            [f \in DOMAIN docs[id] |->
               IF f = "events" THEN Append(docs[id].events, push)
               ELSE IF f \in DOMAIN set THEN set[f]
               ELSE docs[id][f]]]
    ELSE docs

\* the first n elements of a list: Array.prototype.slice(0, n)
Slice(list, n) == SubSeq(list, 1, IF Len(list) < n THEN Len(list) ELSE n)

\* ---------------------------------------------------------- startTraining
\* variant of LoadSourceAssets that does not reject an empty set of loaded
\* images
LoadSourceAssetsUnchecked(input) ==
  IF input.userId \notin DOMAIN UserStore THEN "404"
  ELSE IF input.files = 0
    THEN LET userAssets == UserStore[input.userId]
         IN IF Len(userAssets) = 0 THEN "400"
            ELSE IF \E i \in 1..Len(userAssets) : userAssets[i] = "throws"
              THEN "throw"
            ELSE "ok"
    ELSE "ok"

\* lines 603-684: user lookup and collection of the source images.  The
\* outcome is "404", "400", "throw" or the number of source images.
LoadSourceAssets(input) ==
  IF input.userId \notin DOMAIN UserStore THEN "404"
  ELSE IF input.files = 0
    THEN LET userAssets == UserStore[input.userId]
             assetsToProcess == Slice(userAssets, MAX_TRAINING_IMAGES)
             loaded == {i \in 1..Len(assetsToProcess) : assetsToProcess[i] = "ok"}
         IN IF Len(userAssets) = 0 THEN "400"
            ELSE IF \E i \in 1..Len(assetsToProcess) : assetsToProcess[i] = "throws"
              THEN "throw"
            ELSE IF loaded = {} THEN "400"
            ELSE "ok"
    ELSE "ok"

SourceAssetCount(input) ==
  IF input.files = 0
    THEN LET assetsToProcess == Slice(UserStore[input.userId], MAX_TRAINING_IMAGES)
         IN Cardinality({i \in 1..Len(assetsToProcess) : assetsToProcess[i] = "ok"})
    ELSE input.files

startTraining_validate(r) ==
  /\ startReq[r].pc = "idle"
  /\ \A q \in StartIds : q < r => startReq[q].pc # "idle"
  /\ \E input \in StartInputs :
       LET outcome == LoadSourceAssets(input) IN
       startReq' = [startReq EXCEPT ![r] =
         CASE outcome = "404" ->
                [@ EXCEPT !.input = input, !.pc = "done", !.resp = 404]
           [] outcome = "400" ->
                [@ EXCEPT !.input = input, !.pc = "done", !.resp = 400]
           [] outcome = "throw" ->
                [@ EXCEPT !.input = input, !.pc = "catch"]
           [] OTHER ->
                [@ EXCEPT !.input = input, !.pc = "upload",
                          !.images = SourceAssetCount(input)]]
  /\ UNCHANGED <<otherVars, maxAttempts, trainings, provider, s3, cancelReq, checkReq, ingested>>

\* lines 686-786: the images and the ZIP are uploaded to the object store,
\* then the destination model is created at the provider, which may throw.
startTraining_upload(r) ==
  /\ startReq[r].pc = "upload"
  /\ s3' = s3 \cup {r}
  /\ \E modelCreated \in BOOLEAN :
       startReq' = [startReq EXCEPT ![r].pc =
                      IF modelCreated THEN "create" ELSE "catch"]
  /\ UNCHANGED <<otherVars, maxAttempts, trainings, provider, cancelReq, checkReq, ingested>>

\* variant of NewTraining that creates the record as already dispatched
NewTrainingDispatched(r) ==
  [status |-> "starting",
   progress |-> 0,
   replicateTrainingId |-> ProviderHandle(r),
   attempts |-> 1,
   events |-> <<Event("created", "Training dataset prepared and queued",
                      <<"startTraining", r, 811>>)>>,
   error |-> NoError,
   startedAt |-> NoDate,
   completedAt |-> NoDate]

\* lines 788-814: Training.create.  Of the document the model keeps the job
\* fields; the payload (userId, modelName, imageAssets, trainingConfig) is
\* not part of it, and the request body is not read again once it is built.
NewTraining(r) ==
  [status |-> "queued",
   progress |-> 0,
   replicateTrainingId |-> createPendingReplicateId(r),
   attempts |-> 0,
   events |-> <<Event("created", "Training dataset prepared and queued",
                      <<"startTraining", r, 811>>)>>,
   error |-> NoError,
   startedAt |-> NoDate,
   completedAt |-> NoDate]

startTraining_create(r) ==
  /\ startReq[r].pc = "create"
  /\ trainings' = (r :> NewTraining(r)) @@ trainings
  /\ startReq' = [startReq EXCEPT ![r].pc = "broadcastCreated",
                                  ![r].input = NoInput,
                                  ![r].images = 0,
                                  ![r].created = TRUE]
  /\ UNCHANGED <<otherVars, maxAttempts, provider, s3, cancelReq, checkReq, ingested>>

\* line 816
startTraining_broadcastCreated(r) ==
  /\ startReq[r].pc = "broadcastCreated"
  /\ startReq' = [startReq EXCEPT ![r].pc = "dispatch",
                                  ![r].bcasts = @ + 1]
  /\ UNCHANGED <<otherVars, maxAttempts, trainings, provider, s3, cancelReq, checkReq, ingested>>

\* ------------------------------- services/trainingWorkflow: dispatchTraining
\* Each (re)dispatch counts one attempt; a dispatch asked for beyond the cap
\* fails the record with the tag "max_attempts_exceeded" and throws.
dispatchTraining_attempt(r) ==
  /\ startReq[r].pc = "dispatch"
  /\ IF trainings[r].attempts >= maxAttempts
       THEN /\ trainings' = findByIdAndUpdate(trainings, r,
                 [status |-> "failed", error |-> "max_attempts_exceeded",
                  completedAt |-> <<"dispatchTraining", r, 1>>],
                 Event("error", "Maximum attempts exceeded",
                       <<"dispatchTraining", r, 1>>))
            /\ startReq' = [startReq EXCEPT ![r].pc = "dispatchFailed",
                                            ![r].dispatched = "failed"]
       ELSE /\ trainings' = [trainings EXCEPT ![r].attempts = @ + 1]
            /\ startReq' = [startReq EXCEPT ![r].pc = "dispatchCall"]
  /\ UNCHANGED <<otherVars, maxAttempts, provider, s3, cancelReq, checkReq, ingested>>

\* the provider create call: it answers with a handle, or it fails and the
\* failure is thrown to the caller
dispatchTraining_create(r) ==
  /\ startReq[r].pc = "dispatchCall"
  /\ \E accepted \in BOOLEAN :
       /\ provider' = IF accepted THEN [provider EXCEPT ![r] = "starting"]
                      ELSE provider
       /\ startReq' = [startReq EXCEPT
            ![r].pc = IF accepted THEN "dispatchSettle" ELSE "dispatchFailed",
            ![r].dispatched = IF accepted THEN "ok" ELSE "failed"]
  /\ UNCHANGED <<otherVars, maxAttempts, trainings, s3, cancelReq, checkReq, ingested>>

\* the provider answered: its handle replaces the placeholder, a 'dispatched'
\* event is appended and the record is broadcast
DispatchSettled(docs, r) ==
  findByIdAndUpdate(docs, r,
    [replicateTrainingId |-> ProviderHandle(r)],
    Event("dispatched", "Training dispatched to provider",
          <<"dispatchTraining", r, 2>>))

dispatchTraining_settle(r) ==
  /\ startReq[r].pc = "dispatchSettle"
  /\ trainings' = DispatchSettled(trainings, r)
  /\ startReq' = [startReq EXCEPT ![r].pc = "respond", ![r].bcasts = @ + 1]
  /\ UNCHANGED <<otherVars, maxAttempts, provider, s3, cancelReq, checkReq, ingested>>

\* ------------------------------------------- startTraining, lines 831-885
\* variant of DispatchFailureWrite that puts the record back in the queue
DispatchFailureRequeue(docs, r) ==
  findByIdAndUpdate(docs, r,
    [status |-> "queued", error |-> "provider_error"],
    Event("error", "Failed to dispatch training",
          <<"startTraining", r, 832>>))

\* variant of DispatchFailureWrite that removes the record
DispatchFailureDelete(docs, r) ==
  [t \in DOMAIN docs \ {r} |-> docs[t]]

\* lines 831-847: the write of the catch (dispatchError) block
DispatchFailureWrite(docs, r) ==
  findByIdAndUpdate(docs, r,
    [status |-> "failed", error |-> "provider_error",
     completedAt |-> <<"startTraining", r, 832>>],
    Event("error", "Failed to dispatch training",
          <<"startTraining", r, 832>>))

startTraining_dispatchFailed(r) ==
  /\ startReq[r].pc = "dispatchFailed"
  /\ trainings' = DispatchFailureWrite(trainings, r)
  /\ startReq' = [startReq EXCEPT ![r].pc = "broadcastFailed"]
  /\ UNCHANGED <<otherVars, maxAttempts, provider, s3, cancelReq, checkReq, ingested>>

\* lines 848-849: broadcast, then rethrow to the outer catch
startTraining_broadcastFailed(r) ==
  /\ startReq[r].pc = "broadcastFailed"
  /\ startReq' = [startReq EXCEPT ![r].pc = "catch", ![r].bcasts = @ + 1]
  /\ UNCHANGED <<otherVars, maxAttempts, trainings, provider, s3, cancelReq, checkReq, ingested>>

\* lines 859-885: the outer catch deletes the uploaded dataset and answers 500
startTraining_catch(r) ==
  /\ startReq[r].pc = "catch"
  /\ s3' = s3 \ {r}
  /\ startReq' = [startReq EXCEPT ![r].pc = "done", ![r].resp = 500]
  /\ UNCHANGED <<otherVars, maxAttempts, trainings, provider, cancelReq, checkReq, ingested>>

\* lines 852-858
startTraining_respond(r) ==
  /\ startReq[r].pc = "respond"
  /\ startReq' = [startReq EXCEPT ![r].pc = "done", ![r].resp = 202]
  /\ UNCHANGED <<otherVars, maxAttempts, trainings, provider, s3, cancelReq, checkReq, ingested>>

\* ------------------------------------------------------------ the provider
\* The remote training runs on its own: starting, processing, then succeeded
\* or failed.
ProviderAdvance(t) ==
  /\ \/ /\ provider[t] = "starting"
        /\ provider' = [provider EXCEPT ![t] = "processing"]
     \/ /\ provider[t] = "processing"
        /\ \E s \in {"succeeded", "failed"} :
             provider' = [provider EXCEPT ![t] = s]
  /\ UNCHANGED <<otherVars, maxAttempts, trainings, s3, startReq, cancelReq, checkReq, ingested>>

\* --------------------------- services/trainingWorkflow: processTrainingEvent
Rank(status) ==
  CASE status = "queued" -> 0
    [] status = "starting" -> 1
    [] status = "processing" -> 2
    [] OTHER -> 3

\* provider status vocabulary -> local status vocabulary
MapProviderStatus(status) ==
  CASE status = "starting" -> "starting"
    [] status = "processing" -> "processing"
    [] status = "succeeded" -> "succeeded"
    [] status = "failed" -> "failed"
    [] status = "canceled" -> "canceled"
    [] OTHER -> "unrecognized"

LifecycleEventType(status) ==
  CASE status = "starting" -> "started"
    [] status = "processing" -> "progress"
    [] status = "succeeded" -> "completed"
    [] status = "failed" -> "error"
    [] status = "canceled" -> "canceled"

ClampProgress(raw) == IF raw < 0 THEN 0 ELSE IF raw > 100 THEN 100 ELSE raw

WithProgress(doc, raw) ==
  IF raw = NoProgress THEN doc
  ELSE [doc EXCEPT !.progress = ClampProgress(raw)]

\* One atomic conditional update of the document: an unrecognized status, a
\* terminal record and an event that would move the status backwards are
\* discarded; an unchanged
\* status records the progress only; a changed status appends the lifecycle
\* event and sets startedAt / completedAt / error.
processTrainingEvent(doc, replicateTraining, eventType, instant) ==
  LET new == MapProviderStatus(replicateTraining.status) IN
  IF new = "unrecognized" THEN doc
  ELSE IF doc.status \in TerminalStatuses THEN doc
  ELSE IF Rank(new) < Rank(doc.status) THEN doc
  ELSE IF new = doc.status THEN WithProgress(doc, replicateTraining.progress)
  ELSE [WithProgress(doc, replicateTraining.progress) EXCEPT
          !.status = new,
          !.events = Append(@, Event(LifecycleEventType(new), eventType, instant)),
          !.startedAt = IF new = "processing" /\ @ = NoDate THEN instant ELSE @,
          !.completedAt = IF new \in TerminalStatuses THEN instant ELSE @,
          !.error = IF new = "failed" THEN "provider_failed" ELSE @]

\* ---------------------------------------------------- checkTrainingStatus
\* lines 894-908
checkTrainingStatus_findById(r) ==
  /\ checkReq[r].pc = "idle"
  /\ \A q \in CheckIds : q < r => checkReq[q].pc # "idle"
  /\ \E id \in DOMAIN trainings \cup {UnknownTrainingId} :
       checkReq' = [checkReq EXCEPT ![r] =
         IF id \notin DOMAIN trainings
           THEN [@ EXCEPT !.id = id, !.pc = "done", !.resp = 404]
         ELSE IF \/ trainings[id].replicateTrainingId = NoHandle
                 \/ isPendingReplicateId(trainings[id].replicateTrainingId)
           THEN [@ EXCEPT !.id = id, !.pc = "done", !.resp = 200,
                          !.seenStatus = trainings[id].status,
                          !.handle = trainings[id].replicateTrainingId]
         ELSE [@ EXCEPT !.id = id, !.pc = "get",
                        !.seenStatus = trainings[id].status,
                        !.handle = trainings[id].replicateTrainingId]]
  /\ UNCHANGED <<otherVars, maxAttempts, trainings, provider, s3, startReq, cancelReq, ingested>>

\* lines 910-913: replicate.trainings.get and the event type
EventTypeOf(status) ==
  IF status \in {"succeeded", "failed", "canceled"} THEN "completed" ELSE "update"

checkTrainingStatus_get(r) ==
  /\ checkReq[r].pc = "get"
  /\ \/ \E raw \in RawProgress :
          /\ provider[checkReq[r].handle[2]] = "processing" \/ raw = NoProgress
          /\ checkReq' = [checkReq EXCEPT
               ![r].pc = "process",
               ![r].reply = [status |-> provider[checkReq[r].handle[2]],
                             progress |-> raw],
               ![r].eventType = EventTypeOf(provider[checkReq[r].handle[2]])]
     \/ checkReq' = [checkReq EXCEPT ![r].pc = "done", ![r].resp = 500]
  /\ UNCHANGED <<otherVars, maxAttempts, trainings, provider, s3, startReq, cancelReq, ingested>>

\* variant of ApplyStatusReply that writes the polled status itself
ApplyStatusReplyDirect(docs, r) ==
  [docs EXCEPT ![checkReq[r].id].status =
     MapProviderStatus(checkReq[r].reply.status)]

\* variant of ApplyStatusReply that records a terminal reply on a record
\* that is already terminal
ApplyStatusReplyAgain(docs, r) ==
  LET doc == docs[checkReq[r].id]
      new == MapProviderStatus(checkReq[r].reply.status)
      instant == <<"processTrainingEvent", r, 915>>
  IN IF doc.status \in TerminalStatuses /\ new \in TerminalStatuses
       THEN [docs EXCEPT ![checkReq[r].id] =
               [doc EXCEPT !.status = new,
                           !.events = Append(@, Event(LifecycleEventType(new),
                                                      checkReq[r].eventType, instant)),
                           !.completedAt = instant]]
       ELSE [docs EXCEPT ![checkReq[r].id] =
               processTrainingEvent(@, checkReq[r].reply, checkReq[r].eventType,
                                    instant)]

\* lines 915-926: the reply goes through processTrainingEvent, which
\* broadcasts the record it changed; the record is then read back and
\* returned
ApplyStatusReply(docs, r) ==
  [docs EXCEPT ![checkReq[r].id] =
     processTrainingEvent(@, checkReq[r].reply, checkReq[r].eventType,
                          <<"processTrainingEvent", r, 915>>)]

checkTrainingStatus_process(r) ==
  /\ checkReq[r].pc = "process"
  /\ trainings' = ApplyStatusReply(trainings, r)
  /\ checkReq' = [checkReq EXCEPT ![r].pc = "done", ![r].resp = 200,
        ![r].bcasts = IF trainings' # trainings THEN @ + 1 ELSE @]
  /\ ingested' = [ingested EXCEPT ![checkReq[r].id] = @ \cup {checkReq[r].reply.status}]
  /\ UNCHANGED <<otherVars, maxAttempts, provider, s3, startReq, cancelReq>>

\* --------------------------------------------------------- cancelTraining
\* lines 943-957
cancelTraining_findById(r) ==
  /\ cancelReq[r].pc = "idle"
  /\ \A q \in CancelIds : q < r => cancelReq[q].pc # "idle"
  /\ \E id \in DOMAIN trainings \cup {UnknownTrainingId} :
       cancelReq' = [cancelReq EXCEPT ![r] =
         IF id \notin DOMAIN trainings
           THEN [@ EXCEPT !.id = id, !.pc = "done", !.resp = 404]
         ELSE IF \/ trainings[id].replicateTrainingId = NoHandle
                 \/ isPendingReplicateId(trainings[id].replicateTrainingId)
           THEN [@ EXCEPT !.id = id, !.pc = "done", !.resp = 400,
                          !.seenStatus = trainings[id].status,
                          !.handle = trainings[id].replicateTrainingId]
         ELSE [@ EXCEPT !.id = id, !.pc = "cancel",
                        !.seenStatus = trainings[id].status,
                        !.handle = trainings[id].replicateTrainingId]]
  /\ UNCHANGED <<otherVars, maxAttempts, trainings, provider, s3, startReq, checkReq, ingested>>

\* variant of cancelTraining_cancel that marks the record canceled before it
\* knows the provider's answer
cancelTraining_cancelWriteFirst(r) ==
  /\ cancelReq[r].pc = "cancel"
  /\ trainings' = findByIdAndUpdate(trainings, cancelReq[r].id,
        [status |-> "canceled", completedAt |-> <<"cancelTraining", r, 962>>],
        Event("canceled", "Training canceled by user",
              <<"cancelTraining", r, 962>>))
  /\ \/ /\ provider' = [provider EXCEPT ![cancelReq[r].handle[2]] =
                          IF @ \in {"starting", "processing"} THEN "canceled" ELSE @]
        /\ cancelReq' = [cancelReq EXCEPT ![r].pc = "respond"]
     \/ /\ provider' = provider
        /\ cancelReq' = [cancelReq EXCEPT ![r].pc = "done", ![r].resp = 500,
                                          ![r].threw = "cancel"]
  /\ UNCHANGED <<otherVars, maxAttempts, s3, startReq, checkReq, ingested>>

\* line 960: replicate.trainings.cancel; the provider cancels a training
\* that is still running, leaves a finished one as it is, or rejects the
\* request (lines 988-995)
cancelTraining_cancel(r) ==
  /\ cancelReq[r].pc = "cancel"
  /\ \/ /\ provider' = [provider EXCEPT ![cancelReq[r].handle[2]] =
                          IF @ \in {"starting", "processing"} THEN "canceled" ELSE @]
        /\ cancelReq' = [cancelReq EXCEPT ![r].pc = "update"]
     \/ /\ provider' = provider
        /\ cancelReq' = [cancelReq EXCEPT ![r].pc = "done", ![r].resp = 500,
                                          ![r].threw = "cancel"]
  /\ UNCHANGED <<otherVars, maxAttempts, trainings, s3, startReq, checkReq, ingested>>

\* variant of CancelWrite that sets the events list instead of pushing to it
CancelWriteReplacingEvents(docs, r) ==
  IF cancelReq[r].id \in DOMAIN docs
    THEN [docs EXCEPT ![cancelReq[r].id] =
            [@ EXCEPT !.status = "canceled",
                      !.completedAt = <<"cancelTraining", r, 962>>,
                      !.events = <<Event("canceled", "Training canceled by user",
                                         <<"cancelTraining", r, 962>>)>>]]
    ELSE docs

\* lines 962-978
CancelWrite(docs, r) ==
  findByIdAndUpdate(docs, cancelReq[r].id,
    [status |-> "canceled", completedAt |-> <<"cancelTraining", r, 962>>],
    Event("canceled", "Training canceled by user",
          <<"cancelTraining", r, 962>>))

cancelTraining_update(r) ==
  /\ cancelReq[r].pc = "update"
  /\ trainings' = CancelWrite(trainings, r)
  /\ cancelReq' = [cancelReq EXCEPT ![r].pc = "respond"]
  /\ UNCHANGED <<otherVars, maxAttempts, provider, s3, startReq, checkReq, ingested>>

\* lines 980-987: populateTrainingForClient reads the store again; when it
\* answers, the record is broadcast and returned; when it rejects, the catch
\* (988-995) answers 500
cancelTraining_respond(r) ==
  /\ cancelReq[r].pc = "respond"
  /\ \/ cancelReq' = [cancelReq EXCEPT ![r].pc = "done", ![r].resp = 200,
                                       ![r].bcasts = @ + 1]
     \/ cancelReq' = [cancelReq EXCEPT ![r].pc = "done", ![r].resp = 500,
                                       ![r].threw = "populate"]
  /\ UNCHANGED <<otherVars, maxAttempts, trainings, provider, s3, startReq, checkReq, ingested>>

\* ------------------------------------------------------------------- Next
Next ==
  \/ \E r \in StartIds : startTraining_validate(r)
  \/ \E r \in StartIds : startTraining_upload(r)
  \/ \E r \in StartIds : startTraining_create(r)
  \/ \E r \in StartIds : startTraining_broadcastCreated(r)
  \/ \E r \in StartIds : dispatchTraining_attempt(r)
  \/ \E r \in StartIds : dispatchTraining_create(r)
  \/ \E r \in StartIds : dispatchTraining_settle(r)
  \/ \E r \in StartIds : startTraining_dispatchFailed(r)
  \/ \E r \in StartIds : startTraining_broadcastFailed(r)
  \/ \E r \in StartIds : startTraining_catch(r)
  \/ \E r \in StartIds : startTraining_respond(r)
  \/ \E t \in StartIds : ProviderAdvance(t)
  \/ \E r \in CheckIds : checkTrainingStatus_findById(r)
  \/ \E r \in CheckIds : checkTrainingStatus_get(r)
  \/ \E r \in CheckIds : checkTrainingStatus_process(r)
  \/ \E r \in CancelIds : cancelTraining_findById(r)
  \/ \E r \in CancelIds : cancelTraining_cancel(r)
  \/ \E r \in CancelIds : cancelTraining_update(r)
  \/ \E r \in CancelIds : cancelTraining_respond(r)

Spec == Init /\ [][Next]_vars

\* ------------------------------------------------- streamTrainings (SSE)

\* line 1026: the heartbeat period, in ms
HEARTBEAT_INTERVAL_MS == 25000

\* what the broadcaster may be handed: nothing (the record could not be
\* loaded), a Mongoose document (it has toJSON) or a plain object
NullPayload == [kind |-> "null", _id |-> 0, status |-> ""]

StreamPayloads ==
  {NullPayload}
    \cup [kind : {"document"}, _id : {1}, status : {"processing"}]
    \cup [kind : {"object"}, _id : {1}, status : {"succeeded"}]

\* how far the clock moves in one step when no interval is due earlier
ElapseMs == {12500}

\* lines 998-1004
serialiseTraining(payload) ==
  IF payload.kind = "null" THEN NullPayload
  ELSE IF payload.kind = "document" THEN [payload EXCEPT !.kind = "object"]
  ELSE payload

\* JSON.stringify of a plain object
JSON_stringify(data) ==
  <<"{", "_id", data._id, "status", data.status, "}">>

Frame(line, body) == [line |-> line, body |-> body, at |-> now]

\* variant of send that writes the payload as it was handed over
sendUnserialised(out, payload) ==
  Append(out, Frame("data:", <<"{", "kind", payload.kind,
                               "_id", payload._id, "status", payload.status, "}">>))

\* lines 1017-1021: send, as the frames of res after the call
send(out, payload) ==
  LET data == serialiseTraining(payload)
  IN IF data.kind = "null" THEN out
     ELSE Append(out, Frame("data:", JSON_stringify(data)))

\* lines 1006-1026: the handler runs to its end without suspending: the
\* stream-start comment, the subscription, the interval
streamTrainings(c) ==
  /\ streams[c].state = "idle"
  /\ \A b \in StreamIds : b < c => streams[b].state # "idle"
  /\ streams' = [streams EXCEPT ![c] =
       [@ EXCEPT !.state = "open",
                 !.out = <<Frame(": stream-start", << >>)>>,
                 !.heartbeat = now + HEARTBEAT_INTERVAL_MS,
                 !.openedAt = now,
                 !.publishedAtOpen = Len(published)]]
  /\ subscribers' = subscribers \cup {c}
  /\ UNCHANGED <<outsideStream, published, now>>

\* lines 1024-1026: the interval callback
streamTrainings_heartbeat(c) ==
  /\ streams[c].heartbeat = now
  /\ streams' = [streams EXCEPT ![c] =
       [@ EXCEPT !.out = Append(@, Frame(": ping", << >>)),
                 !.heartbeat = now + HEARTBEAT_INTERVAL_MS]]
  /\ UNCHANGED <<outsideStream, subscribers, published, now>>

\* variant of the close handler that forgets to unsubscribe
streamTrainings_closeKeepSubscribed(c) ==
  /\ streams[c].state = "open"
  /\ streams' = [streams EXCEPT ![c] =
       [@ EXCEPT !.state = "closed", !.heartbeat = NoTimer,
                 !.closedAt = now, !.publishedAtClose = Len(published)]]
  /\ UNCHANGED <<outsideStream, subscribers, published, now>>

\* lines 1028-1031: req 'close'
streamTrainings_close(c) ==
  /\ streams[c].state = "open"
  /\ streams' = [streams EXCEPT ![c] =
       [@ EXCEPT !.state = "closed", !.heartbeat = NoTimer,
                 !.closedAt = now, !.publishedAtClose = Len(published)]]
  /\ subscribers' = subscribers \ {c}
  /\ UNCHANGED <<outsideStream, published, now>>

\* the broadcaster publishes: every current subscriber's send is called
\* with the payload, one after the other, before anything else runs
broadcastTraining(payload) ==
  /\ Len(published) < MaxPublished
  /\ published' = Append(published, payload)
  /\ streams' = [c \in StreamIds |->
       IF c \in subscribers
         THEN [streams[c] EXCEPT !.out = send(@, payload)]
         ELSE streams[c]]
  /\ UNCHANGED <<outsideStream, subscribers, now>>

\* time passes, never beyond the next due interval
Elapse(d) ==
  /\ now + d <= MaxClockMs
  /\ \A c \in StreamIds :
       streams[c].heartbeat # NoTimer => now + d <= streams[c].heartbeat
  /\ now' = now + d
  /\ UNCHANGED <<outsideStream, streams, subscribers, published>>

StreamNext ==
  \/ \E c \in StreamIds : streamTrainings(c)
  \/ \E c \in StreamIds : streamTrainings_heartbeat(c)
  \/ \E c \in StreamIds : streamTrainings_close(c)
  \/ \E payload \in StreamPayloads : broadcastTraining(payload)
  \/ \E d \in ElapseMs : Elapse(d)

StreamSpec == Init /\ [][StreamNext]_vars

\* ------------------------------------- Storybooks page: the job list cache

\* Storybooks.jsx line 46
JOB_HISTORY_LIMIT == 10

JobIds == 1..MaxJobs

\* a job payload is parsed JSON.  _id and createdAt are numbers here, 0 for a
\* missing one; every other field is a value with its kind: "absent" (the
\* key is missing), "null", "string" or "array"
NoJobId == 0
NoCreatedAt == 0
Absent == [kind |-> "absent", v |-> << >>]
Null == [kind |-> "null", v |-> << >>]
Str(x) == [kind |-> "string", v |-> <<x>>]
Arr(xs) == [kind |-> "array", v |-> xs]

\* the payloads the page may be handed for job j: the full record while it
\* runs, the full record once it succeeded, a failure notice and a progress
\* notice that carry only some fields, and a record whose events is null
\* (the last three only for the first MaxVariedJobs jobs)
\* the book a job belongs to
JobBook(j) == ((j - 1) % MaxBooks) + 1

\* the full record of job j in the given status
JobSnapshot(j, status) ==
  [_id |-> j, createdAt |-> j, bookId |-> JobBook(j), status |-> Str(status),
   error |-> Absent, events |-> Arr(<<"created">>), pages |-> Arr(<< >>)]

JobPayloadsOf(j) ==
  {JobSnapshot(j, "running")}
  \cup
  IF j > MaxVariedJobs THEN {}
  ELSE
  {[_id |-> j, createdAt |-> j, bookId |-> JobBook(j),
    status |-> Str("succeeded"), error |-> Null,
    events |-> Arr(<<"created", "completed">>), pages |-> Arr(<<"page-1">>)],
   [_id |-> j, createdAt |-> NoCreatedAt, bookId |-> NoBook,
    status |-> Str("failed"),
    error |-> Str("generation failed"), events |-> Absent, pages |-> Absent],
   [_id |-> j, createdAt |-> NoCreatedAt, bookId |-> NoBook,
    status |-> Str("running"),
    error |-> Absent, events |-> Null, pages |-> Absent]}

JobPayloads ==
  UNION {JobPayloadsOf(j) : j \in JobIds}
    \cup {[_id |-> NoJobId, createdAt |-> NoCreatedAt, bookId |-> NoBook,
           status |-> Str("running"),
           error |-> Absent, events |-> Absent, pages |-> Absent]}

\* variant of sortByCreatedAtDesc that leaves the list as it is
keepInsertionOrder(list) == list

\* Storybooks.jsx lines 113-114 with Array.prototype.sort, which is stable:
\* newest first, equal dates in their previous order
RECURSIVE sortByCreatedAtDesc(_)
sortByCreatedAtDesc(list) ==
  IF list = << >> THEN << >>
  ELSE LET rest == sortByCreatedAtDesc(SubSeq(list, 1, Len(list) - 1))
           last == list[Len(list)]
           \* last goes behind every entry at least as new as it
           ahead == SelectSeq(rest, LAMBDA e : e.createdAt >= last.createdAt)
           behind == SelectSeq(rest, LAMBDA e : e.createdAt < last.createdAt)
       IN ahead \o <<last>> \o behind

\* one key of { ...current, ...incoming }
Spread(current, incoming) ==
  IF incoming.kind = "absent" THEN current ELSE incoming

\* events and pages: Array.isArray(incoming.x) ? incoming.x :
\*                   Array.isArray(current.x) ? current.x : []
ArrayOf(current, incoming) ==
  IF incoming.kind = "array" THEN incoming
  ELSE IF current.kind = "array" THEN current
  ELSE Arr(<< >>)

\* Storybooks.jsx lines 116-135
mergeJobPayload(current, incoming) ==
  [_id |-> IF incoming._id = NoJobId THEN current._id ELSE incoming._id,
   createdAt |-> IF incoming.createdAt = NoCreatedAt THEN current.createdAt
                 ELSE incoming.createdAt,
   bookId |-> IF incoming.bookId = NoBook THEN current.bookId
              ELSE incoming.bookId,
   status |-> Spread(current.status, incoming.status),
   error |-> Spread(current.error, incoming.error),
   events |-> ArrayOf(current.events, incoming.events),
   pages |-> ArrayOf(current.pages, incoming.pages)]

\* list.findIndex((item) => item._id === id); 0 for -1
FindIndex(list, id) ==
  IF \E i \in 1..Len(list) : list[i]._id = id
    THEN CHOOSE i \in 1..Len(list) :
           /\ list[i]._id = id
           /\ \A k \in 1..(i - 1) : list[k]._id # id
    ELSE 0

\* Storybooks.jsx lines 137-151
upsertJobList(list, incoming) ==
  IF incoming._id = NoJobId THEN list
  ELSE LET existingIndex == FindIndex(list, incoming._id)
       IN IF existingIndex = 0
            THEN Slice(sortByCreatedAtDesc(<<incoming>> \o list), JOB_HISTORY_LIMIT)
            ELSE Slice(sortByCreatedAtDesc(
                         [list EXCEPT ![existingIndex] =
                            mergeJobPayload(list[existingIndex], incoming)]),
                       JOB_HISTORY_LIMIT)

\* a request of the Storybooks page; status is the status of the book's
\* job when the server read it
BookRequest(kind, bookId) ==
  [kind |-> kind, bookId |-> bookId, status |-> serverJobs[bookId]]

\* Storybooks.jsx lines 2328-2383: the page after handleJobCompletion(job)
handleJobCompletion(bk, job) ==
  IF job.status # Str("succeeded") THEN bk
  ELSE IF /\ job.bookId # NoBook
          /\ bk.selectedBookId # NoBook
          /\ job.bookId # bk.selectedBookId THEN bk
  ELSE IF job._id \in bk.handled THEN bk
  ELSE [bk EXCEPT
          !.handled = @ \cup {job._id},
          !.completions[job._id] = @ + 1,
          !.requests = IF bk.selectedBookId # NoBook
                         THEN Append(@, BookRequest("details", bk.selectedBookId))
                         ELSE @]

\* Storybooks.jsx lines 2385-2394: a job update arrives from the stream
applyJobUpdate(payload) ==
  /\ Len(book.requests) < MaxBookRequests
  /\ storybookJobs' = IF payload._id = NoJobId THEN storybookJobs
                      ELSE upsertJobList(storybookJobs, payload)
  /\ lastJobUpdate' = payload
  /\ book' = IF payload._id = NoJobId THEN book
             ELSE handleJobCompletion(book, payload)
  /\ UNCHANGED outsideJobList

JobListNext == \E payload \in JobPayloads : applyJobUpdate(payload)

JobListSpec == Init /\ [][JobListNext]_vars

\* ------------------------------------------ Training page (part_000)

\* part_000 lines 249-358, up to the request: the page after a call of
\* fetchTrainings whose closure holds params.  A call made while a request
\* is in flight stores its options and returns, and the finally block of
\* that same call resets the in-flight flag, takes the stored options back
\* and calls fetchTrainings again, which then sends its request.  origin
\* says whose finally block runs when the response is in: "timer" for the
\* refresh timer's callback.
fetchTrainings(pg, origin, params) ==
  LET cleared == [pg EXCEPT !.refreshTimer = FALSE]
  IN IF cleared.isFetching
       THEN [cleared EXCEPT !.isFetching = TRUE, !.pending = "none",
                            !.requests = Append(@, [origin |-> "other",
                                                    params |-> params])]
       ELSE [cleared EXCEPT !.isFetching = TRUE,
                            !.requests = Append(@, [origin |-> origin,
                                                    params |-> params])]

\* part_000 lines 448-460: connectEventStream
connectEventStream(pg) ==
  [pg EXCEPT !.eventSource = "connecting",
             !.openSources = IF pg.eventSource = "none" THEN @ + 1 ELSE @,
             !.hasProcessedInitialStream = FALSE]

\* part_000 lines 497-511: the cleanup of the stream effect
StreamCleanup(pg) ==
  [pg EXCEPT !.eventSource = "none",
             !.openSources = IF pg.eventSource = "none" THEN @ ELSE @ - 1,
             !.reconnectTimer = FALSE,
             !.reconnectTimers = IF pg.reconnectTimer THEN @ - 1 ELSE @,
             !.refreshTimer = FALSE,
             !.hasProcessedInitialStream = FALSE]

\* part_000 lines 362-376 and 495-497: the effects of the first render
Page_mount ==
  /\ ~page.mounted
  /\ ~page.unmounted
  /\ page' = connectEventStream(
               fetchTrainings([page EXCEPT !.mounted = TRUE], "other",
                              page.params))
  /\ channel' = << >>
  /\ refetchOwed' = FALSE
  /\ UNCHANGED <<outsidePage, serverStatus>>

\* part_000 lines 383-390 and 495-513: a page, limit, search or filter
\* change gives fetchTrainings a new identity: the stream effect is cleaned
\* up, the list is fetched and the stream is connected again
Page_changeFilter ==
  /\ page.mounted
  /\ page.params < MaxParamChanges
  /\ Len(page.requests) < MaxRequests
  /\ page' = connectEventStream(
               fetchTrainings(StreamCleanup([page EXCEPT !.params = @ + 1]),
                              "other", page.params + 1))
  /\ channel' = << >>
  /\ refetchOwed' = FALSE
  /\ UNCHANGED <<outsidePage, serverStatus>>

\* part_000 lines 497-511: the page unmounts
Page_unmount ==
  /\ page.mounted
  /\ page' = [StreamCleanup(page) EXCEPT !.mounted = FALSE, !.unmounted = TRUE]
  /\ channel' = << >>
  /\ UNCHANGED <<outsidePage, serverStatus, refetchOwed>>

\* part_000 lines 462-468: onopen
EventSource_open ==
  /\ page.eventSource = "connecting"
  /\ page' = [page EXCEPT !.eventSource = "open",
                          !.reconnectTimer = FALSE,
                          !.reconnectTimers = IF page.reconnectTimer
                                                THEN @ - 1 ELSE @]
  /\ UNCHANGED <<outsidePage, serverStatus, channel, refetchOwed>>

\* part_000 lines 480-491: onerror
EventSource_error ==
  /\ page.eventSource \in {"connecting", "open"}
  /\ page' = [page EXCEPT !.eventSource = "none",
                          !.openSources = @ - 1,
                          !.reconnectTimer = TRUE,
                          !.reconnectTimers = IF page.reconnectTimer
                                                THEN @ ELSE @ + 1]
  /\ channel' = << >>
  /\ UNCHANGED <<outsidePage, serverStatus, refetchOwed>>

\* part_000 lines 488-490: the reconnect timer fires
Reconnect_fire ==
  /\ page.reconnectTimer
  /\ page' = connectEventStream([page EXCEPT !.reconnectTimer = FALSE,
                                             !.reconnectTimers = @ - 1])
  /\ channel' = << >>
  /\ UNCHANGED <<outsidePage, serverStatus, refetchOwed>>

\* part_000 lines 392-403: scheduleTrainingRefresh
scheduleTrainingRefresh(pg) ==
  IF pg.refreshTimer THEN pg ELSE [pg EXCEPT !.refreshTimer = TRUE]

\* part_000 lines 405-446, for a payload of one item with _id and status
handleTrainingStreamUpdate(pg, item) ==
  LET previousStatus == pg.statusMap[item._id]
      shouldRefresh == \/ previousStatus = ""
                       \/ previousStatus # item.status
                       \/ item.progress = "number"
      seen == [pg EXCEPT !.statusMap[item._id] = item.status]
  IN IF ~shouldRefresh THEN seen
     ELSE IF ~seen.hasProcessedInitialStream
       THEN [seen EXCEPT !.hasProcessedInitialStream = TRUE]
       ELSE scheduleTrainingRefresh(seen)

\* part_000 lines 470-478: onmessage
EventSource_message ==
  /\ page.eventSource = "open"
  /\ channel # << >>
  /\ page' = handleTrainingStreamUpdate(page, Head(channel))
  /\ channel' = Tail(channel)
  /\ refetchOwed' = (\/ refetchOwed
                     \/ page.statusMap[Head(channel)._id] # Head(channel).status)
  /\ UNCHANGED <<outsidePage, serverStatus>>

\* part_000 lines 394-401: the refresh timer the ref points to fires
RefreshTimer_fire ==
  /\ page.refreshTimer
  /\ Len(page.requests) < MaxRequests
  /\ page' = fetchTrainings(page, "timer", page.params)
  /\ refetchOwed' = FALSE
  /\ UNCHANGED <<outsidePage, serverStatus, channel>>

\* a refresh timer fires that the ref no longer points to (line 400 reset
\* the ref while this timer was waiting)
OrphanTimer_fire ==
  /\ page.orphanTimers # << >>
  /\ Len(page.requests) < MaxRequests
  /\ page' = fetchTrainings([page EXCEPT !.orphanTimers = Tail(@)], "timer",
                            Head(page.orphanTimers))
  /\ refetchOwed' = FALSE
  /\ UNCHANGED <<outsidePage, serverStatus, channel>>

\* the sequence without its i-th element
RemoveAt(seq, i) == SubSeq(seq, 1, i - 1) \o SubSeq(seq, i + 1, Len(seq))

\* part_000 lines 262-348: the answer to request i arrives (ok) or the
\* request fails; then the finally block, then, for the refresh timer's
\* callback, line 400
fetchTrainings_settle(i, ok) ==
  /\ i \in 1..Len(page.requests)
  /\ ~(/\ page.requests[i].origin = "timer"
       /\ page.refreshTimer
       /\ Len(page.orphanTimers) >= MaxOrphanTimers)
  /\ LET answered ==
           [page EXCEPT
              !.requests = RemoveAt(@, i),
              !.isFetching = FALSE,
              !.fetchFailed = @ \/ ~ok,
              !.displayed = IF ok /\ page.mounted
                              THEN page.requests[i].params ELSE @,
              !.statusMap = [t \in PageTrainingIds |->
                               IF ok /\ serverStatus[t] # ""
                                 THEN serverStatus[t] ELSE @[t]]]
     IN page' = IF page.requests[i].origin = "timer" /\ answered.refreshTimer
                  THEN [answered EXCEPT !.refreshTimer = FALSE,
                                        !.orphanTimers = Append(@, page.params)]
                  ELSE answered
  /\ UNCHANGED <<outsidePage, serverStatus, channel, refetchOwed>>

\* the lifecycle of a training as the server reports it
NextStatuses(status) ==
  CASE status = "" -> {"queued"}
    [] status = "queued" -> {"processing", "failed"}
    [] status = "processing" -> {"succeeded", "failed", "canceled"}
    [] OTHER -> {}

StreamMessage(t, status) == [_id |-> t, status |-> status, progress |-> "number"]

\* the server changes a training and pushes it to the connected page
Server_update(t, status) ==
  /\ status \in NextStatuses(serverStatus[t])
  /\ Len(channel) < MaxChannel
  /\ serverStatus' = [serverStatus EXCEPT ![t] = status]
  /\ channel' = IF page.eventSource = "open"
                  THEN Append(channel, StreamMessage(t, status)) ELSE channel
  /\ UNCHANGED <<outsidePage, page, refetchOwed>>

\* the server pushes a training whose progress changed, not its status
Server_progress(t) ==
  /\ serverStatus[t] = "processing"
  /\ page.eventSource = "open"
  /\ Len(channel) < MaxChannel
  /\ channel' = Append(channel, StreamMessage(t, serverStatus[t]))
  /\ UNCHANGED <<outsidePage, page, serverStatus, refetchOwed>>

PageNext ==
  \/ Page_mount
  \/ Page_changeFilter
  \/ Page_unmount
  \/ EventSource_open
  \/ EventSource_error
  \/ Reconnect_fire
  \/ EventSource_message
  \/ RefreshTimer_fire
  \/ OrphanTimer_fire
  \/ \E i \in 1..MaxRequests, ok \in BOOLEAN : fetchTrainings_settle(i, ok)
  \/ \E t \in PageTrainingIds, status \in TerminalStatuses \cup {"queued", "processing"} :
       Server_update(t, status)
  \/ \E t \in PageTrainingIds : Server_progress(t)

PageSpec == Init /\ [][PageNext]_vars

\* ------------------------------------ Storybooks page: the selected book

\* Storybooks.jsx lines 2316-2326: disconnectJobStream
disconnectJobStream(bk) ==
  [bk EXCEPT !.reconnectTimer = FALSE,
             !.reconnectTimers = IF bk.reconnectTimer THEN @ - 1 ELSE @,
             !.eventSource = "none",
             !.openSources = IF bk.eventSource = "none" THEN @ ELSE @ - 1]

\* Storybooks.jsx lines 2420-2427: connectJobStream(bookId) up to the new
\* EventSource
connectJobStream(bk, bookId) ==
  LET closed == disconnectJobStream(bk)
  IN IF bookId = NoBook THEN closed
     ELSE [closed EXCEPT !.eventSource = "connecting",
                         !.streamBook = bookId,
                         !.openSources = @ + 1]

\* Storybooks.jsx lines 2514-2538: selectedBookId changes to b; the cleanup
\* of the previous run of the effect, then the effect
Book_select(b) ==
  /\ ~book.unmounted
  /\ b # book.selectedBookId
  /\ book.changes < MaxBookChanges
  /\ Len(book.requests) + 2 <= MaxBookRequests
  /\ LET cleaned == [(IF book.selectedBookId = NoBook THEN book
                      ELSE disconnectJobStream(book))
                       EXCEPT !.selectedBookId = b,
                              !.changes = @ + 1,
                              !.failed = FALSE,
                              !.completions = [j \in 1..MaxJobs |-> 0]]
     IN IF b = NoBook
          THEN /\ book' = [disconnectJobStream(cleaned)
                             EXCEPT !.selectedBook = NoBook, !.handled = {}]
               /\ storybookJobs' = << >>
          ELSE /\ book' = connectJobStream(
                            [cleaned EXCEPT !.requests =
                               @ \o <<BookRequest("details", b),
                                      BookRequest("jobs", b)>>],
                            b)
               /\ UNCHANGED storybookJobs
  /\ UNCHANGED <<outsideBook, lastJobUpdate, serverJobs>>

\* Storybooks.jsx lines 2532-2534: the page unmounts
Book_unmount ==
  /\ ~book.unmounted
  /\ book' = [(IF book.selectedBookId = NoBook THEN book
               ELSE disconnectJobStream(book)) EXCEPT !.unmounted = TRUE]
  /\ UNCHANGED <<outsideBook, jobListVars, serverJobs>>

\* Storybooks.jsx lines 2231-2292: the response of bookAPI.getById arrives
fetchBookDetails_settle(i, ok) ==
  /\ i \in 1..Len(book.requests)
  /\ book.requests[i].kind = "details"
  /\ LET rest == [book EXCEPT !.requests = RemoveAt(@, i)]
     IN book' = IF book.unmounted THEN rest
                ELSE IF ok
                  THEN [rest EXCEPT !.selectedBook = book.requests[i].bookId]
                  ELSE [rest EXCEPT !.selectedBook = NoBook, !.failed = TRUE]
  /\ UNCHANGED <<outsideBook, jobListVars, serverJobs>>

\* Storybooks.jsx lines 2403-2415: the response of bookAPI.getStorybookJobs
\* arrives
fetchStorybookJobs_settle(i, ok) ==
  /\ i \in 1..Len(book.requests)
  /\ book.requests[i].kind = "jobs"
  /\ LET r == book.requests[i]
         jobs == <<JobSnapshot(r.bookId, r.status)>>
         rest == [book EXCEPT !.requests = RemoveAt(@, i)]
     IN IF ok
          THEN /\ storybookJobs' = IF book.unmounted THEN storybookJobs
                                   ELSE sortByCreatedAtDesc(jobs)
               /\ book' = [rest EXCEPT !.handled =
                             {jobs[k]._id : k \in
                                {n \in 1..Len(jobs) :
                                   jobs[n].status = Str("succeeded")}}]
          ELSE /\ book' = [rest EXCEPT !.failed = TRUE]
               /\ UNCHANGED storybookJobs
  /\ UNCHANGED <<outsideBook, lastJobUpdate, serverJobs>>

\* Storybooks.jsx lines 2429-2435: onopen
JobStream_open ==
  /\ book.eventSource = "connecting"
  /\ book' = [book EXCEPT !.eventSource = "open",
                          !.reconnectTimer = FALSE,
                          !.reconnectTimers = IF book.reconnectTimer
                                                THEN @ - 1 ELSE @]
  /\ UNCHANGED <<outsideBook, jobListVars, serverJobs>>

\* variant of JobStream_error that arms no reconnect timer
JobStream_errorNoRetry ==
  /\ book.eventSource \in {"connecting", "open"}
  /\ book' = [book EXCEPT !.eventSource = "none", !.openSources = @ - 1]
  /\ UNCHANGED <<outsideBook, jobListVars, serverJobs>>

\* Storybooks.jsx lines 2447-2458: onerror
JobStream_error ==
  /\ book.eventSource \in {"connecting", "open"}
  /\ book' = [book EXCEPT !.eventSource = "none",
                          !.openSources = @ - 1,
                          !.reconnectTimer = TRUE,
                          !.reconnectTimers = IF book.reconnectTimer
                                                THEN @ ELSE @ + 1]
  /\ UNCHANGED <<outsideBook, jobListVars, serverJobs>>

\* Storybooks.jsx lines 2454-2456: the reconnect timer fires
JobReconnect_fire ==
  /\ book.reconnectTimer
  /\ book' = connectJobStream([book EXCEPT !.reconnectTimers = @ - 1,
                                           !.reconnectTimer = FALSE],
                              book.streamBook)
  /\ UNCHANGED <<outsideBook, jobListVars, serverJobs>>

\* Storybooks.jsx lines 2437-2445: onmessage; the stream of a book carries
\* the records of that book's jobs, and a record may be sent again while
\* its status stays the same
JobStream_message(j) ==
  /\ book.eventSource = "open"
  /\ JobBook(j) = book.streamBook
  /\ applyJobUpdate(JobSnapshot(j, serverJobs[j]))

\* the generation run of a book finishes on the server
BookServer_succeed(j) ==
  /\ serverJobs[j] = "running"
  /\ serverJobs' = [serverJobs EXCEPT ![j] = "succeeded"]
  /\ UNCHANGED <<outsideBook, jobListVars, book>>

BookNext ==
  \/ \E b \in BookIds \cup {NoBook} : Book_select(b)
  \/ Book_unmount
  \/ \E i \in 1..MaxBookRequests, ok \in BOOLEAN : fetchBookDetails_settle(i, ok)
  \/ \E i \in 1..MaxBookRequests, ok \in BOOLEAN : fetchStorybookJobs_settle(i, ok)
  \/ JobStream_open
  \/ JobStream_error
  \/ JobReconnect_fire
  \/ \E j \in BookIds : JobStream_message(j)
  \/ \E j \in BookIds : BookServer_succeed(j)

BookSpec == Init /\ [][BookNext]_vars

\* ------------------------------- the stream subscriptions of both pages

\* the steps of both pages that open, close, lose and reopen a stream
ReconnectNext ==
  \/ Page_mount
  \/ Page_changeFilter
  \/ Page_unmount
  \/ EventSource_open
  \/ EventSource_error
  \/ Reconnect_fire
  \/ \E b \in BookIds \cup {NoBook} : Book_select(b)
  \/ Book_unmount
  \/ JobStream_open
  \/ JobStream_error
  \/ JobReconnect_fire

\* a timeout that was set and not cleared runs its callback
ReconnectSpec ==
  /\ Init
  /\ [][ReconnectNext]_vars
  /\ WF_vars(Reconnect_fire)
  /\ WF_vars(JobReconnect_fire)

\* ============================================================ properties
HasRealHandle(t) == trainings[t].replicateTrainingId = ProviderHandle(t)

EventsWhere(t, type, message) ==
  {i \in 1..Len(trainings[t].events) :
     /\ trainings[t].events[i].type = type
     /\ trainings[t].events[i].message = message}

UserCancelEvents(t) == EventsWhere(t, "canceled", "Training canceled by user")

\* the events processTrainingEvent appended for a terminal provider status
IngestedTerminalEvents(t) ==
  {i \in 1..Len(trainings[t].events) :
     /\ trainings[t].events[i].type \in {"completed", "error", "canceled"}
     /\ trainings[t].events[i].message = "completed"}

\* request r is the step of checkTrainingStatus that applies the polled reply
ProcessStep(r) == checkReq[r].pc = "process" /\ checkReq'[r].pc = "done"

\* C1: a cancelTraining that finds the record terminal, or its handle absent
\* or a placeholder, is answered with a client error without calling the
\* provider and without writing the record.
C1_CancelRejectedWhenTerminalOrPlaceholder ==
  \A r \in CancelIds :
    (/\ cancelReq[r].pc # "idle"
     /\ cancelReq[r].id \in DOMAIN trainings
     /\ \/ cancelReq[r].seenStatus \in TerminalStatuses
        \/ cancelReq[r].handle # ProviderHandle(cancelReq[r].id))
    => cancelReq[r].pc = "done" /\ cancelReq[r].resp = 400

\* C2: of two cancelTraining calls that both read the record in status
\* processing and both had their provider cancel accepted, exactly one
\* answers 200 and exactly one 'canceled' event is appended.
C2_ConcurrentCancelsOneWinner ==
  \A a \in CancelIds : \A b \in CancelIds :
    (/\ a # b
     /\ cancelReq[a].pc = "done" /\ cancelReq[b].pc = "done"
     /\ cancelReq[a].id = cancelReq[b].id
     /\ cancelReq[a].seenStatus = "processing"
     /\ cancelReq[b].seenStatus = "processing"
     /\ cancelReq[a].resp # 500 /\ cancelReq[b].resp # 500)
    => /\ Cardinality({c \in {a, b} : cancelReq[c].resp = 200}) = 1
       /\ Cardinality(UserCancelEvents(cancelReq[a].id)) = 1

\* C3: once the stored status of a record is succeeded, failed or canceled
\* it never changes again.
C3_TerminalStatusFinal ==
  [][\A t \in DOMAIN trainings :
       trainings[t].status \in TerminalStatuses
       => t \in DOMAIN trainings' /\ trainings'[t].status = trainings[t].status]_vars

\* C4: applying a polled provider status never moves a record backwards and
\* leaves a terminal record untouched; a record only ingestion has written
\* holds the latest (in provider order) of the statuses delivered to it,
\* whatever the order of delivery.
LatestDelivered(t) ==
  IF ingested[t] = {} THEN "queued"
  ELSE CHOOSE s \in ingested[t] : \A o \in ingested[t] : Rank(o) <= Rank(s)

C4_NoRegressionOnStaleEvent ==
  /\ [](\A t \in DOMAIN trainings :
          (UserCancelEvents(t) = {} /\ HasRealHandle(t))
          => trainings[t].status = LatestDelivered(t))
  /\ [][\A r \in CheckIds :
          ProcessStep(r) =>
            LET t == checkReq[r].id IN
            /\ Rank(trainings'[t].status) >= Rank(trainings[t].status)
            /\ trainings[t].status \in TerminalStatuses
               => trainings'[t] = trainings[t]]_vars

C4_Witness ==
  \E a \in CheckIds : \E b \in CheckIds :
    /\ a # b
    /\ checkReq[a].pc = "done" /\ checkReq[b].pc = "done"
    /\ checkReq[a].id = checkReq[b].id
    /\ checkReq[a].reply.status = "processing"
    /\ checkReq[b].reply.status = "succeeded"
    /\ trainings[checkReq[a].id].status = "succeeded"
    /\ trainings[checkReq[a].id].startedAt = NoDate

\* C5: however often a terminal provider status is applied to a record, the
\* record holds one terminal event of ingestion, and completedAt is the
\* instant of that event as long as that event is the last of the list.
C5_TerminalEventAppliedOnce ==
  \A t \in DOMAIN trainings :
    /\ Cardinality(IngestedTerminalEvents(t)) <= 1
    /\ \A i \in IngestedTerminalEvents(t) :
         i = Len(trainings[t].events)
         => trainings[t].completedAt = trainings[t].events[i].timestamp

C5_Witness ==
  \E a \in CheckIds : \E b \in CheckIds :
    /\ a # b
    /\ checkReq[a].pc = "done" /\ checkReq[b].pc = "done"
    /\ checkReq[a].id = checkReq[b].id
    /\ checkReq[a].reply.status = "succeeded"
    /\ checkReq[b].reply = checkReq[a].reply
    /\ Cardinality(IngestedTerminalEvents(checkReq[a].id)) = 1
    /\ trainings[checkReq[a].id].status = "succeeded"

\* C6: once completedAt holds a value no later operation replaces it.
C6_CompletedAtWrittenOnce ==
  [][\A t \in DOMAIN trainings :
       trainings[t].completedAt # NoDate
       => t \in DOMAIN trainings'
          /\ trainings'[t].completedAt = trainings[t].completedAt]_vars

C8_RecordInspectableAfterDispatch ==
  \A r \in StartIds :
    startReq[r].created
    => /\ r \in DOMAIN trainings
       /\ startReq[r].dispatched = "failed"
          => \/ trainings[r].status = "queued"
             \/ /\ trainings[r].status = "failed"
                /\ \E i \in 1..Len(trainings[r].events) :
                     trainings[r].events[i].type = "error"
                /\ trainings[r].completedAt # NoDate
       /\ (startReq[r].dispatched = "failed" /\ startReq[r].pc = "done")
          => \E i \in 1..Len(trainings[r].events) :
               trainings[r].events[i].type = "error"

C8_Witness ==
  \E r \in StartIds :
    /\ startReq[r].created
    /\ startReq[r].dispatched = "failed"
    /\ startReq[r].pc = "done"
    /\ startReq[r].resp = 500
    /\ r \in DOMAIN trainings

\* C9: while the handle of a record is not the provider's, every
\* checkTrainingStatus and cancelTraining on it has returned straight after
\* reading it: no provider call was made and nothing was applied.
C9_NoProviderCallOnPlaceholder ==
  \A t \in DOMAIN trainings :
    ~HasRealHandle(t)
    => /\ \A r \in CancelIds :
            (cancelReq[r].pc # "idle" /\ cancelReq[r].id = t)
            => cancelReq[r].pc = "done" /\ cancelReq[r].resp = 400
       /\ \A r \in CheckIds :
            (checkReq[r].pc # "idle" /\ checkReq[r].id = t)
            => /\ checkReq[r].pc = "done" /\ checkReq[r].resp = 200
               /\ checkReq[r].reply = NoReply
       /\ ingested[t] = {}
       /\ UserCancelEvents(t) = {}

C9_Witness ==
  \E t \in DOMAIN trainings :
    /\ ~HasRealHandle(t)
    /\ \E r \in CancelIds : cancelReq[r].pc = "done" /\ cancelReq[r].id = t
    /\ \E r \in CheckIds : checkReq[r].pc = "done" /\ checkReq[r].id = t

\* C10: a start request for an unknown user, for a user without image
\* assets or for images none of which loads creates no Training record and
\* issues no broadcast.
RejectedInput(input) ==
  \/ input.userId \notin DOMAIN UserStore
  \/ /\ input.files = 0
     /\ \A i \in 1..Len(UserStore[input.userId]) :
          UserStore[input.userId][i] # "ok"

C10_InvalidStartCreatesNothing ==
  \A r \in StartIds :
    (startReq[r].input # NoInput /\ RejectedInput(startReq[r].input))
    => /\ ~startReq[r].created
       /\ r \notin DOMAIN trainings
       /\ startReq[r].bcasts = 0
       /\ startReq[r].pc \in {"done", "catch"}
       /\ startReq[r].pc = "done" => startReq[r].resp \in {400, 404, 500}

C10_Witness ==
  \E r \in StartIds :
    /\ startReq[r].pc = "done"
    /\ startReq[r].input.userId = "u_blank"
    /\ startReq[r].resp = 400

\* the events and dates request r of cancelTraining wrote
WrittenByCancel(r) == <<"cancelTraining", r, 962>>

\* C11: a cancelTraining whose provider cancel was rejected answers 500, has
\* written neither an event nor completedAt and has issued no broadcast.
C11_RejectedCancelLeavesRecord ==
  \A r \in CancelIds :
    (cancelReq[r].pc = "done" /\ cancelReq[r].threw = "cancel")
    => /\ cancelReq[r].resp = 500
       /\ cancelReq[r].bcasts = 0
       /\ cancelReq[r].id \in DOMAIN trainings
       /\ trainings[cancelReq[r].id].completedAt # WrittenByCancel(r)
       /\ \A i \in 1..Len(trainings[cancelReq[r].id].events) :
            trainings[cancelReq[r].id].events[i].timestamp # WrittenByCancel(r)

C11_Witness ==
  \E r \in CancelIds :
    /\ cancelReq[r].pc = "done" /\ cancelReq[r].threw = "cancel"
    /\ trainings[cancelReq[r].id].status = "processing"

\* C12: a checkTrainingStatus that finds the record succeeded, failed or
\* canceled returns it without calling the provider.
C12_NoPollOfTerminalRecord ==
  \A r \in CheckIds :
    (/\ checkReq[r].pc # "idle"
     /\ checkReq[r].id \in DOMAIN trainings
     /\ checkReq[r].seenStatus \in TerminalStatuses)
    => /\ checkReq[r].pc = "done"
       /\ checkReq[r].resp = 200
       /\ checkReq[r].reply = NoReply

\* C13: once Training.create has succeeded startTraining answers with the
\* created record, not with an error.
C13_CreatedRecordIsReturned ==
  \A r \in StartIds :
    (startReq[r].created /\ startReq[r].pc = "done") => startReq[r].resp = 202

\* C16: every step leaves the events list of every record a prefix of the
\* new list.
C16_EventsAppendOnly ==
  [][\A t \in DOMAIN trainings :
       /\ t \in DOMAIN trainings'
       /\ Len(trainings'[t].events) >= Len(trainings[t].events)
       /\ SubSeq(trainings'[t].events, 1, Len(trainings[t].events))
            = trainings[t].events]_vars

C16_Witness ==
  \E t \in DOMAIN trainings :
    /\ UserCancelEvents(t) # {}
    /\ \E i \in 1..Len(trainings[t].events) :
         trainings[t].events[i].type = "completed"

\* C19: a startTraining whose dispatch failed with attempts left has put the
\* record back to queued, with an 'error' event; failed is for exhaustion.
C19_FailedDispatchRequeues ==
  \A r \in StartIds :
    (/\ startReq[r].pc = "done"
     /\ startReq[r].dispatched = "failed"
     /\ r \in DOMAIN trainings
     /\ trainings[r].attempts < maxAttempts)
    => /\ trainings[r].status = "queued"
       /\ EventsWhere(r, "error", "Failed to dispatch training") # {}

\* the record exactly as Training.create wrote it
IsFreshRecord(r) ==
  /\ r \in DOMAIN trainings
  /\ trainings[r].status = "queued"
  /\ trainings[r].progress = 0
  /\ trainings[r].attempts = 0
  /\ trainings[r].replicateTrainingId = createPendingReplicateId(r)
  /\ Len(trainings[r].events) = 1
  /\ trainings[r].events[1].type = "created"

\* C20: when startTraining reaches the dispatch the record exists as created
\* (queued, progress 0, attempts 0, placeholder handle, one 'created' event)
\* and has been broadcast; the provider is called only after that, and a
\* provider handle is stored only once the provider has accepted.
C20_CreatedAndBroadcastBeforeProvider ==
  \A r \in StartIds :
    /\ startReq[r].pc = "broadcastCreated" => IsFreshRecord(r)
    /\ startReq[r].pc = "dispatch"
         => IsFreshRecord(r) /\ startReq[r].bcasts = 1 /\ provider[r] = "none"
    /\ (provider[r] # "none" \/ startReq[r].dispatched # "no")
         => startReq[r].created /\ startReq[r].bcasts >= 1
    /\ (r \in DOMAIN trainings /\ trainings[r].replicateTrainingId # createPendingReplicateId(r))
         => /\ startReq[r].dispatched = "ok"
            /\ provider[r] # "none"
            /\ trainings[r].replicateTrainingId = ProviderHandle(r)

C20_Witness ==
  \E r \in StartIds :
    /\ startReq[r].pc = "done" /\ startReq[r].resp = 202
    /\ trainings[r].replicateTrainingId = ProviderHandle(r)
    /\ startReq[r].bcasts = 2

\* the frames of connection c with the given first line
FramesOf(c, line) == SelectSeq(streams[c].out, LAMBDA f : f.line = line)

\* the payloads published while connection c was subscribed that are records
RecordsPublishedTo(c) ==
  SelectSeq(SubSeq(published, streams[c].publishedAtOpen + 1,
                   IF streams[c].state = "open" THEN Len(published)
                   ELSE streams[c].publishedAtClose),
            LAMBDA payload : payload.kind # "null")

\* C14: the broadcaster's subscribers and the armed heartbeat intervals are
\* exactly the open connections, and nothing is written to a connection
\* once it has closed.
C14_NoLeakedSubscriptionOrTimer ==
  /\ [](/\ subscribers = {c \in StreamIds : streams[c].state = "open"}
        /\ \A c \in StreamIds :
             streams[c].heartbeat # NoTimer <=> streams[c].state = "open")
  /\ [][\A c \in StreamIds :
          streams[c].state = "closed" => streams'[c] = streams[c]]_vars

C14_Witness ==
  \E c, b \in StreamIds :
    /\ streams[c].state = "closed"
    /\ Len(published) > streams[c].publishedAtClose
    /\ now >= streams[c].closedAt + HEARTBEAT_INTERVAL_MS
    /\ streams[b].state = "open"
    /\ FramesOf(b, "data:") # << >>

\* C15: on every connection the first frame is the stream-start comment,
\* the data frames are the records published while it was subscribed, one
\* frame each, serialised, in publish order, and the pings were written at
\* 25 s, 50 s, ... after the open, none missed while it is open.
C15_StreamFramesInOrder ==
  \A c \in StreamIds :
    streams[c].state # "idle" =>
      /\ streams[c].out[1].line = ": stream-start"
      /\ Len(FramesOf(c, ": stream-start")) = 1
      /\ Len(FramesOf(c, "data:")) = Len(RecordsPublishedTo(c))
      /\ \A i \in 1..Len(RecordsPublishedTo(c)) :
           FramesOf(c, "data:")[i].body
             = <<"{", "_id", RecordsPublishedTo(c)[i]._id,
                 "status", RecordsPublishedTo(c)[i].status, "}">>
      /\ \A k \in 1..Len(FramesOf(c, ": ping")) :
           FramesOf(c, ": ping")[k].at
             = streams[c].openedAt + k * HEARTBEAT_INTERVAL_MS
      /\ streams[c].state = "open" =>
           /\ now <= streams[c].openedAt
                       + (Len(FramesOf(c, ": ping")) + 1) * HEARTBEAT_INTERVAL_MS
      /\ streams[c].state = "closed" =>
           \A k \in 1..Len(FramesOf(c, ": ping")) :
             FramesOf(c, ": ping")[k].at <= streams[c].closedAt

C15_Witness ==
  \E c \in StreamIds :
    /\ streams[c].state = "open"
    /\ Len(FramesOf(c, "data:")) = 1
    /\ Len(FramesOf(c, ": ping")) = 1
    /\ Len(published) = streams[c].publishedAtOpen + 2

\* the entries of the cached list with the id of the last payload
EntriesOfLastUpdate ==
  {i \in 1..Len(storybookJobs) : storybookJobs[i]._id = lastJobUpdate._id}

\* C17 as stated: after a job update the cached entry with the payload's id
\* equals the payload field for field.
C17_EntryEqualsIncoming ==
  lastJobUpdate._id # NoJobId
    => \A i \in EntriesOfLastUpdate : storybookJobs[i] = lastJobUpdate

\* C18: once a delivered message has reported a status the page did not
\* know, a list request is on its way: the refresh timer is armed, or a
\* request is in flight.
C18_StatusChangeSchedulesRefetch ==
  (page.mounted /\ refetchOwed)
    => \/ page.refreshTimer
       \/ page.orphanTimers # << >>
       \/ page.requests # << >>

\* C21: a finished startTraining or cancelTraining has broadcast the record
\* after each change it wrote to it: the creation, the dispatch-failure
\* write, the cancel write.
C21_EveryWriteIsBroadcast ==
  /\ \A r \in StartIds :
       (startReq[r].pc = "done" /\ startReq[r].created)
         => startReq[r].bcasts
              >= 1 + Cardinality(EventsWhere(r, "error", "Failed to dispatch training"))
  /\ \A r \in CancelIds :
       (/\ cancelReq[r].pc = "done"
        /\ cancelReq[r].id \in DOMAIN trainings
        /\ \E i \in 1..Len(trainings[cancelReq[r].id].events) :
             trainings[cancelReq[r].id].events[i].timestamp = WrittenByCancel(r))
         => cancelReq[r].bcasts >= 1

\* C28: the dataset objects of every stored record exist in the object
\* store.
C28_RecordAssetsExist ==
  \A t \in DOMAIN trainings : t \in s3

\* C29: the cached job list has unique ids, is sorted by createdAt, newest
\* first, and holds at most JOB_HISTORY_LIMIT entries; a payload without
\* _id leaves it as it was.
C29_JobListWellFormed ==
  /\ [](/\ \A i, k \in 1..Len(storybookJobs) :
             storybookJobs[i]._id = storybookJobs[k]._id => i = k
        /\ \A i, k \in 1..Len(storybookJobs) :
             i < k => storybookJobs[i].createdAt >= storybookJobs[k].createdAt
        /\ Len(storybookJobs) <= JOB_HISTORY_LIMIT)
  /\ [][lastJobUpdate'._id = NoJobId => storybookJobs' = storybookJobs]_vars

C29_Witness ==
  /\ Len(storybookJobs) = JOB_HISTORY_LIMIT
  /\ lastJobUpdate._id # NoJobId
  /\ \A i \in 1..Len(storybookJobs) : storybookJobs[i]._id # lastJobUpdate._id

\* the refresh timeouts of the Training page that are still waiting
PendingRefreshTimers ==
  (IF page.refreshTimer THEN 1 ELSE 0) + Len(page.orphanTimers)

\* C22: at most one refresh timer of the Training page is pending.
C22_OneRefreshTimer == PendingRefreshTimers <= 1

\* C24: at most one trainings list request is in flight.
C24_SingleFlight == Len(page.requests) <= 1

\* C25: when the mounted Training page is quiescent (no request in flight
\* or pending, no refresh timer waiting) and no request has failed, the
\* displayed list is the response for the current params.
C25_LatestParamsDisplayed ==
  (/\ page.mounted
   /\ ~page.fetchFailed
   /\ page.requests = << >>
   /\ page.pending = "none"
   /\ PendingRefreshTimers = 0)
  => page.displayed = page.params

\* C30: once the Training page has unmounted no EventSource of it is open
\* and no reconnect or refresh timer of it is waiting.
C30_TeardownComplete ==
  page.unmounted
    => /\ page.openSources = 0
       /\ page.reconnectTimers = 0
       /\ PendingRefreshTimers = 0

\* C26: on the Storybooks page, once no load is in flight and none has
\* failed, the details shown, every entry of the job list, the handled
\* completions and the stream all belong to the selected book: a response
\* for a book selected earlier is not applied
C26_SelectedBookDataOnly ==
  (/\ ~book.unmounted
   /\ book.selectedBookId # NoBook
   /\ book.requests = << >>
   /\ ~book.failed)
    => /\ book.selectedBook = book.selectedBookId
       /\ \A k \in 1..Len(storybookJobs) :
            storybookJobs[k].bookId = book.selectedBookId
       /\ \A j \in book.handled : JobBook(j) = book.selectedBookId
       /\ book.eventSource # "none" => book.streamBook = book.selectedBookId

\* C27: while the same book stays selected, the completion handling of the
\* Storybooks page runs at most once for each job, and only for jobs of the
\* selected book
C27_CompletionHandledOnce ==
  \A j \in 1..MaxJobs :
    /\ book.completions[j] <= 1
    /\ (book.completions[j] > 0 /\ book.selectedBookId # NoBook)
         => JobBook(j) = book.selectedBookId

\* C23: each page keeps a reconnecting subscription: it never has more
\* than one EventSource open nor more than one reconnect timer pending, and
\* whenever it is without a stream while mounted (for the Storybooks page,
\* with a book selected) a new connection is eventually attempted, unless
\* the page unmounts (or the book is deselected) first
C23_ReconnectingSubscription ==
  /\ [](/\ page.openSources <= 1
        /\ page.reconnectTimers <= 1
        /\ book.openSources <= 1
        /\ book.reconnectTimers <= 1)
  /\ (page.mounted /\ page.eventSource = "none")
       ~> (page.eventSource # "none" \/ page.unmounted)
  /\ (~book.unmounted /\ book.selectedBookId # NoBook
        /\ book.eventSource = "none")
       ~> \/ book.eventSource # "none" /\ book.streamBook = book.selectedBookId
          \/ book.selectedBookId = NoBook
          \/ book.unmounted

\* both pages have lost their stream and wait for their reconnect timer
C23_Witness ==
  /\ page.mounted
  /\ page.eventSource = "none"
  /\ page.reconnectTimer
  /\ ~book.unmounted
  /\ book.selectedBookId # NoBook
  /\ book.eventSource = "none"
  /\ book.reconnectTimer

====
